---- MODULE Spec2Model ----
(***************************************************************************)
(* The chunked copy pipeline of fs/streams.js: a readable file stream      *)
(* (./index.html, highWaterMark 5) whose "data" listener transforms each   *)
(* chunk and hands it to a writable file stream (./demo.txt), and whose    *)
(* "end" listener logs "done".  The streams themselves are Node's; their   *)
(* steps (a read completing, end of file, a write completing, an "error"   *)
(* event) are the events the script's listeners react to.                  *)
(***************************************************************************)
EXTENDS Integers, Sequences, FiniteSets, TLC

\* ---------------------------------------------------------------- bounds
\* longest source file explored, in bytes (three reads of highWaterMark)
MaxFileLen == 11

\* highWaterMark of the writable stream: createWriteStream("./demo.txt")
\* takes Node's default (16 KB); scaled down to the files explored here so
\* that write() does return false
WritableHighWaterMark == 8

\* longest content ./server.js has before fsOP runs, in pieces
MaxOldPieces == 2

\* longest string given to Buffer.from and to write, in characters
MaxTextLen == 3

\* highWaterMark of a readable created without options, as in the manual
\* and pipe() examples of III.streams.md: Node's default for file streams
\* (64 KB), scaled down to the files explored
DefaultHighWaterMark == 4

\* ------------------------------------------------------ program constants
\* createReadStream("./index.html", { encoding: "utf-8", highWaterMark: 5 })
highWaterMark == 5

\* the characters a source file is made of: one of a single byte and one
\* that takes two bytes in utf-8 (e-acute, C3 A9; its upper case is C3 89)
Alphabet == {"a", "e'"}

\* the two listener bodies of streams.js: the duplex example writes the
\* chunk as it is, the transform example writes chunk.toUpperCase()
Examples == {"duplex", "transform"}

VARIABLES
    example,        \* which of the two examples of streams.js runs
    file,           \* content of ./index.html, a sequence of characters
    pc,             \* "Idle" before the script ran, "Running", "Crashed"
    rpos,           \* readObject: bytes of the file read so far
    rcarry,         \* readObject: bytes of a character cut by the last read
    produced,       \* the chunks readObject emitted with "data", in order
    rended,         \* readObject: "end" has been emitted
    wbuf,           \* writeObject: chunks accepted by write(), not yet on disk
    needDrain,      \* writeObject: write() returned false, "drain" is owed
    disk,           \* ./demo.txt: the chunks written, in the order written
    log,            \* the lines printed by console.log
    endCalls,       \* number of writeObject.end() calls made
    drains,         \* number of "drain" events writeObject emitted
    everSaturated,  \* some write() of this run returned false
    uncaught,       \* the error the process died of, "none" while alive
    stmt,           \* statements of the main script that have run
    phase,          \* where the event loop is: "main", "timers", "poll", "check"
    queues,         \* the callbacks waiting in each queue of the event loop
    inflight,       \* what libuv is at work on: file operations, timers
    serverJs,       \* content of ./server.js, the pieces written in order
    buff1           \* the bytes of the Buffer of buffer.js

\* the state of the two streams
streamVars == <<rpos, rcarry, produced, rended, wbuf, needDrain, disk,
                endCalls, drains, everSaturated>>

\* the state of the event loop and of what the other scripts work on
loopVars == <<stmt, phase, queues, inflight, serverJs, buff1>>

vars == <<example, file, pc, rpos, rcarry, produced, rended, wbuf, needDrain,
          disk, log, endCalls, drains, everSaturated, uncaught, stmt, phase,
          queues, inflight, serverJs, buff1>>

\* ---------------------------------------------------------------- helpers
Min(a, b) == IF a < b THEN a ELSE b

RECURSIVE Flatten(_)
\* the characters of a sequence of chunks, in order
Flatten(chunks) ==
    IF chunks = <<>> THEN <<>> ELSE Head(chunks) \o Flatten(Tail(chunks))

\* the utf-8 bytes of one character
EncodeChar(c) ==
    CASE c = "e'"   -> <<"C3", "A9">>
      [] c = "E'"   -> <<"C3", "89">>
      [] c = "FFFD" -> <<"EF", "BF", "BD">>
      [] OTHER      -> <<c>>

RECURSIVE Encode(_)
\* the utf-8 bytes of a string: what a file stream writes for it
Encode(str) ==
    IF str = <<>> THEN <<>> ELSE EncodeChar(Head(str)) \o Encode(Tail(str))

RECURSIVE DecodeStr(_)
\* utf-8 decoding as the stream's string decoder does it: the whole
\* characters of the bytes become the string, the bytes of a character
\* that is not complete yet are left out, a byte that starts no character
\* becomes U+FFFD
DecodeStr(bs) ==
    IF bs = <<>> THEN <<>>
    ELSE IF Head(bs) = "C3" THEN
        IF Len(bs) = 1 THEN <<>>
        ELSE IF bs[2] = "A9" THEN <<"e'">> \o DecodeStr(SubSeq(bs, 3, Len(bs)))
        ELSE IF bs[2] = "89" THEN <<"E'">> \o DecodeStr(SubSeq(bs, 3, Len(bs)))
        ELSE <<"FFFD">> \o DecodeStr(Tail(bs))
    ELSE IF Head(bs) \in {"A9", "89", "EF", "BF", "BD"}
        THEN <<"FFFD">> \o DecodeStr(Tail(bs))
    ELSE <<Head(bs)>> \o DecodeStr(Tail(bs))

\* the bytes the decoder keeps for the next read: those of a last
\* character that is not complete yet
DecodeCarry(bs) ==
    IF bs # <<>> /\ bs[Len(bs)] = "C3" THEN <<"C3">> ELSE <<>>

\* StringDecoder.write: decode the bytes kept from the read before
\* followed by the bytes of this read
StringDecoderWrite(carry, bytes) ==
    [str |-> DecodeStr(carry \o bytes), carry |-> DecodeCarry(carry \o bytes)]

\* bytes held in a sequence of chunks
BufferedBytes(chunks) == Len(Encode(Flatten(chunks)))

\* sequences over S of length 0..n
SeqUpTo(S, n) == UNION {[1..k -> S] : k \in 0..n}

\* UpperChar knowing the letters of a single byte only
UpperCharAscii(c) == IF c = "a" THEN "A" ELSE c

\* String.prototype.toUpperCase on one character
UpperChar(c) ==
    CASE c = "a"  -> "A"
      [] c = "e'" -> "E'"
      [] OTHER    -> c

RECURSIVE toUpperCase(_)
\* chunk.toUpperCase(): every character replaced by its upper-case form
toUpperCase(chunk) ==
    IF chunk = <<>> THEN <<>>
    ELSE <<UpperChar(Head(chunk))>> \o toUpperCase(Tail(chunk))

\* what the "data" listener hands to writeObject.write
Transform(ex, chunk) == IF ex = "transform" THEN toUpperCase(chunk) ELSE chunk

\* NextChunk with the read position one byte behind: the last byte of the
\* chunk before is read again and the last byte of this one is left out
NextChunkRewind(f, pos) ==
    IF pos = 0
      THEN SubSeq(f, 1, Min(highWaterMark, Len(f)))
      ELSE SubSeq(f, pos, Min(pos + highWaterMark, Len(f)) - 1)

\* NextChunk reading one byte more than highWaterMark
NextChunkOver(f, pos) == SubSeq(f, pos + 1, Min(pos + highWaterMark + 1, Len(f)))

\* NextChunk reading one byte less than highWaterMark
NextChunkShort(f, pos) == SubSeq(f, pos + 1, Min(pos + highWaterMark - 1, Len(f)))

\* the bytes a read at position pos yields: at most highWaterMark
NextChunk(f, pos) == SubSeq(f, pos + 1, Min(pos + highWaterMark, Len(f)))

\* WritableWrite putting the chunk in front of the buffered ones
WritableWriteFront(buf, chunk) == <<chunk>> \o buf

\* WritableWrite refusing the chunk with which the buffer reaches the
\* writable's highWaterMark, instead of buffering it and returning false
WritableWriteDropWhenFull(buf, chunk) ==
    IF BufferedBytes(Append(buf, chunk)) >= WritableHighWaterMark
      THEN buf
      ELSE Append(buf, chunk)

\* WritableWrite buffering twice the chunk with which the buffer reaches
\* the writable's highWaterMark
WritableWriteTwiceWhenFull(buf, chunk) ==
    IF BufferedBytes(Append(buf, chunk)) >= WritableHighWaterMark
      THEN Append(Append(buf, chunk), chunk)
      ELSE Append(buf, chunk)

\* Writable.write: the chunk joins the end of the stream's buffer
WritableWrite(buf, chunk) == Append(buf, chunk)

\* WrittenBuffer leaving the written chunk in the buffer
WrittenBufferKeep(buf) == buf

\* the writable's buffer once the write of its oldest chunk has completed
WrittenBuffer(buf) == Tail(buf)

\* Writable.write's return value: false once the buffer holds
\* highWaterMark bytes or more
WriteReturn(buf) == BufferedBytes(buf) < WritableHighWaterMark

\* EndOfFile taking the file for read when at most one read is left of it
EndOfFileEarly(f, pos) == pos + highWaterMark >= Len(f)

\* a read at position pos finds nothing left of the file
EndOfFile(f, pos) == pos = Len(f)

\* Alive with a process that goes on after an "error" event
AliveAfterError(p) == p # "Idle"

\* the process runs its listeners: the script has run and no uncaught
\* "error" event has ended the process
Alive(p) == p = "Running"

\* the source files explored: the utf-8 bytes of every text over Alphabet
\* that takes at most MaxFileLen bytes
Files ==
    {Encode(text) : text \in {t \in SeqUpTo(Alphabet, MaxFileLen) :
                                  Len(Encode(t)) <= MaxFileLen}}

\* no callback waits in any queue of the event loop
EmptyQueues ==
    [nextTick |-> <<>>, promise |-> <<>>, timers |-> <<>>, io |-> <<>>,
     check |-> <<>>]

\* the streams before any of them was created
StreamsInit ==
    /\ rpos = 0
    /\ rcarry = <<>>
    /\ produced = <<>>
    /\ rended = FALSE
    /\ wbuf = <<>>
    /\ needDrain = FALSE
    /\ disk = <<>>
    /\ endCalls = 0
    /\ drains = 0
    /\ everSaturated = FALSE

\* the event loop before the main script ran
LoopInit ==
    /\ stmt = 0
    /\ phase = "main"
    /\ queues = EmptyQueues
    /\ inflight = {}
    /\ serverJs = <<>>
    /\ buff1 = <<>>

\* ------------------------------------------------------------------- Init
Init ==
    /\ example \in Examples
    /\ file \in Files
    /\ pc = "Idle"
    /\ rpos = 0
    /\ rcarry = <<>>
    /\ produced = <<>>
    /\ rended = FALSE
    /\ wbuf = <<>>
    /\ needDrain = FALSE
    /\ disk = <<>>
    /\ log = <<>>
    /\ endCalls = 0
    /\ drains = 0
    /\ everSaturated = FALSE
    /\ uncaught = "none"
    /\ LoopInit

\* ---------------------------------------------------------------- actions
\* the script's synchronous run: both streams are created and the "data"
\* and "end" listeners attached, which puts readObject in flowing mode
Script ==
    /\ pc = "Idle"
    /\ pc' = "Running"
    /\ UNCHANGED <<example, file, rpos, rcarry, produced, rended, wbuf,
                   needDrain, disk, log, endCalls, drains, everSaturated,
                   uncaught>>
    /\ UNCHANGED loopVars

\* a read of the file completes with data: the bytes are decoded (the
\* stream has an encoding), readObject emits "data" with the string and the
\* listener logs, transforms the chunk and calls writeObject.write, whose
\* return value it drops; a read that completes no character emits nothing
OnData ==
    /\ Alive(pc)
    /\ ~rended
    /\ ~EndOfFile(file, rpos)
    /\ \E bytes \in {NextChunk(file, rpos)} :
       \E dec \in {StringDecoderWrite(rcarry, bytes)} :
       \E buf \in {WritableWrite(wbuf, Transform(example, dec.str))} :
       \E ret \in {WriteReturn(buf)} :
           /\ rpos' = rpos + Len(bytes)
           /\ rcarry' = dec.carry
           /\ IF dec.str = <<>>
                THEN UNCHANGED <<produced, log, wbuf, needDrain, everSaturated>>
                ELSE /\ produced' = Append(produced, dec.str)
                     /\ log' = Append(log, "chunk read")
                     /\ wbuf' = buf
                     /\ needDrain' = (needDrain \/ ~ret)
                     /\ everSaturated' = (everSaturated \/ ~ret)
    /\ UNCHANGED <<example, file, pc, rended, disk, endCalls, drains, uncaught>>
    /\ UNCHANGED loopVars

\* a read finds the end of the file: readObject emits "end" and the
\* listener logs "done" (a file of whole characters has left nothing in
\* the decoder by then)
OnEnd ==
    /\ Alive(pc)
    /\ ~rended
    /\ EndOfFile(file, rpos)
    /\ rended' = TRUE
    /\ log' = Append(log, "done")
    /\ UNCHANGED <<example, file, pc, rpos, rcarry, produced, wbuf, needDrain,
                   disk, endCalls, drains, everSaturated, uncaught>>
    /\ UNCHANGED loopVars

\* the write of the oldest buffered chunk completes: it is on disk, its
\* callback logs, and an emptied buffer that owed a "drain" emits it (no
\* listener is attached to it)
OnWritten ==
    /\ Alive(pc)
    /\ wbuf # <<>>
    /\ disk' = Append(disk, Head(wbuf))
    /\ wbuf' = WrittenBuffer(wbuf)
    /\ log' = Append(log, "chunk written")
    /\ IF needDrain /\ WrittenBuffer(wbuf) = <<>>
         THEN needDrain' = FALSE /\ drains' = drains + 1
         ELSE UNCHANGED <<needDrain, drains>>
    /\ UNCHANGED <<example, file, pc, rpos, rcarry, produced, rended, endCalls,
                   everSaturated, uncaught>>
    /\ UNCHANGED loopVars

\* opening or reading ./index.html fails: readObject emits "error", no
\* listener is attached, the error is thrown and the process dies
OnReadError ==
    /\ Alive(pc)
    /\ ~rended
    /\ pc' = "Crashed"
    /\ uncaught' = "ReadError"
    /\ UNCHANGED <<example, file, rpos, rcarry, produced, rended, wbuf,
                   needDrain, disk, log, endCalls, drains, everSaturated>>
    /\ UNCHANGED loopVars

\* a write to ./demo.txt fails: writeObject emits "error", no listener is
\* attached, the error is thrown and the process dies
OnWriteError ==
    /\ Alive(pc)
    /\ wbuf # <<>>
    /\ pc' = "Crashed"
    /\ uncaught' = "WriteError"
    /\ UNCHANGED <<example, file, rpos, rcarry, produced, rended, wbuf,
                   needDrain, disk, log, endCalls, drains, everSaturated>>
    /\ UNCHANGED loopVars

Next ==
    \/ Script
    \/ OnData
    \/ OnEnd
    \/ OnWritten
    \/ OnReadError
    \/ OnWriteError

Spec == Init /\ [][Next]_vars

\* the event loop delivers every completion that is pending; an error need
\* never happen
FairSpec ==
    /\ Spec
    /\ WF_vars(Script)
    /\ WF_vars(OnData)
    /\ WF_vars(OnEnd)
    /\ WF_vars(OnWritten)

\* ------------------------------------------------- the pipeline's view
\* the state of the pipeline as the streams show it: the script never
\* pauses readObject, so it flows until "end"; after "end" the buffered
\* writes drain; it has completed when nothing is left to write; it has
\* failed when an "error" event killed the process
PipelineState ==
    CASE pc = "Idle"    -> "Idle"
      [] pc = "Crashed" -> "Failed"
      [] pc = "Running" /\ ~rended -> "Flowing"
      [] pc = "Running" /\ rended /\ wbuf # <<>> -> "Draining"
      [] OTHER -> "Completed"

\* the chunks writeObject.write has accepted so far, oldest first
Accepted == disk \o wbuf

\* bytes emitted by readObject whose write has not completed
Undelivered == rpos - BufferedBytes(disk)

\* number of chunks a file of n bytes is read in
NumChunks(n) == (n + highWaterMark - 1) \div highWaterMark

RECURSIVE ChunksFrom(_, _, _)
\* the chunks of a file from byte position pos on, the decoder holding
\* carry: every read of highWaterMark bytes decoded in turn
ChunksFrom(f, pos, carry) ==
    IF pos >= Len(f) THEN <<>>
    ELSE LET bytes == carry \o SubSeq(f, pos + 1, Min(pos + highWaterMark, Len(f)))
             str   == DecodeStr(bytes)
         IN  (IF str = <<>> THEN <<>> ELSE <<str>>)
                 \o ChunksFrom(f, Min(pos + highWaterMark, Len(f)),
                               DecodeCarry(bytes))

\* the i-th chunk of a file, counted from 1
SourceChunk(f, i) == ChunksFrom(f, 0, <<>>)[i]

\* what a complete run leaves on disk
ExpectedOutput(ex, f) ==
    [i \in 1..NumChunks(Len(f)) |-> Transform(ex, SourceChunk(f, i))]

\* ================================================================ claims

\* C1: the bytes pulled from the source and not yet acknowledged by the
\* sink never exceed the configured highWaterMark.  The "data" listener
\* drops write()'s return value and never pauses readObject, so a second
\* chunk is read while the first is still unwritten.
C1_UndeliveredWithinWatermark == Undelivered <= highWaterMark

\* C2: the i-th chunk the sink accepts is the one derived from the i-th
\* chunk of the source, for the chunks on disk and the buffered ones alike,
\* with or without the upper-case transform.
C2_DeliveredInSourceOrder ==
    /\ Len(Accepted) <= NumChunks(Len(file))
    /\ \A i \in 1..Len(Accepted) :
         Accepted[i] = Transform(example, SourceChunk(file, i))

\* C2 witness: the transform example has two different chunks on disk
C2_Witness ==
    /\ example = "transform"
    /\ Len(disk) >= 2
    /\ disk[1] # disk[2]
    /\ wbuf # <<>>

C4_OneChunkInFlight ==
    /\ Len(wbuf) <= 1
    /\ \A i \in 1..(Len(log) - 1) :
         log[i] = "chunk read" => log[i + 1] # "chunk read"

\* C5: between a write() that returned false and the "drain" that follows
\* it, no chunk is pulled from the source.
C5_NoPullWhileSaturated ==
    [][(pc = "Running" /\ needDrain) => rpos' = rpos]_vars

\* C6: a completed run leaves the same chunk sequence on disk whether or
\* not the sink saturated on the way: the output is the one the file and
\* the transform determine.
C6_SameOutputWhenThrottled ==
    \A saturated \in BOOLEAN :
        (PipelineState = "Completed" /\ everSaturated = saturated)
            => disk = ExpectedOutput(example, file)

\* C6 witness: a run that saturated, drained and completed
C6_Witness ==
    /\ PipelineState = "Completed"
    /\ everSaturated
    /\ drains >= 1
    /\ Len(disk) = 3

\* the same input also completes without ever saturating
C6_WitnessUnthrottled ==
    /\ PipelineState = "Completed"
    /\ ~everSaturated
    /\ Len(disk) = 3

\* C7: by the time the pipeline is Completed or Failed, writeObject.end()
\* has been called exactly once.
C7_FinalizeExactlyOnce ==
    PipelineState \in {"Completed", "Failed"} => endCalls = 1

\* C9: an error moves the pipeline to Failed, the sink is then finalized,
\* and the error surfaced is the one that occurred.
C9_ErrorThenFinalize ==
    /\ [](pc = "Crashed" => uncaught \in {"ReadError", "WriteError"})
    /\ [](pc = "Crashed" => <>(endCalls >= 1))

\* C10: when the source fails on its k-th read, the pipeline is Failed,
\* the k-1 chunks read before are with the sink, and the sink was
\* finalized exactly once.
C10_ReadFailureKeepsPartialOutput ==
    (pc = "Crashed" /\ uncaught = "ReadError")
        => /\ PipelineState = "Failed"
           /\ BufferedBytes(Accepted) + Len(rcarry) = rpos
           /\ endCalls = 1

\* C11: a run reports exactly one terminal outcome: the "done" of the "end"
\* listener or one uncaught error, never both and never two errors.  The
\* listener logs "done" when the source ends, while writes are still
\* pending and can still fail.
C11_OneTerminalOutcome ==
    LET successes == Cardinality({i \in 1..Len(log) : log[i] = "done"})
        errors    == IF uncaught = "none" THEN 0 ELSE 1
    IN  /\ successes + errors <= 1
        /\ PipelineState \in {"Completed", "Failed"} => successes + errors = 1

\* the six states of the pipeline
PipelineStates ==
    {"Idle", "Flowing", "Paused", "Draining", "Completed", "Failed"}

\* the state changes the pipeline's state machine allows
AllowedTransitions ==
    {<<"Idle", "Flowing">>, <<"Flowing", "Paused">>, <<"Paused", "Flowing">>,
     <<"Flowing", "Draining">>, <<"Draining", "Completed">>}
        \cup {<<st, "Failed">> : st \in PipelineStates}

ChunkSizes(chunks) == [i \in 1..Len(chunks) |-> Len(Encode(chunks[i]))]

\* 1 when byte p of the file is the first byte of a two-byte character,
\* which a read ending at p cuts in two
Cut(f, p) == IF p >= 1 /\ p <= Len(f) /\ f[p] = "C3" THEN 1 ELSE 0

C15_TransformPerChunk ==
    /\ Len(Accepted) = Len(produced)
    /\ \A i \in 1..Len(Accepted) :
          /\ Len(Accepted[i]) = Len(produced[i])
          /\ \A k \in 1..Len(Accepted[i]) :
                Accepted[i][k] =
                    IF example = "duplex" THEN produced[i][k]
                    ELSE CASE produced[i][k] = "a"  -> "A"
                           [] produced[i][k] = "e'" -> "E'"

\* C15 witness: the transform example wrote a chunk holding both kinds of
\* character, in upper case
C15_Witness ==
    /\ example = "transform"
    /\ Len(disk) >= 2
    /\ \E k, l \in 1..Len(disk[2]) : disk[2][k] = "A" /\ disk[2][l] = "E'"

\* C17: readObject's read position never decreases, and no byte of the file
\* is delivered twice: the chunks produced so far, put end to end, followed
\* by the bytes the decoder still holds, are the first rpos bytes of the
\* file, each one once.
C17_NoRewind ==
    /\ [][rpos' >= rpos]_vars
    /\ [](Encode(Flatten(produced)) \o rcarry = SubSeq(file, 1, rpos))

\* C17 witness: a third read has followed two others, the first of which
\* cut a character whose first byte the second chunk took over
C17_Witness ==
    /\ rpos > 2 * highWaterMark
    /\ Len(produced) = 3
    /\ file[highWaterMark] = "C3"
    /\ Head(produced[2]) = "e'"

\* C19: every chunk readObject produced is held in one place at a time: it
\* is either in writeObject's buffer or on disk, never in both, and the
\* bytes read so far are shared out between the decoder, the buffer and
\* the disk with none counted twice.
C19_OneHolderPerChunk ==
    /\ Len(wbuf) + Len(disk) = Len(produced)
    /\ BufferedBytes(wbuf) + BufferedBytes(disk) + Len(rcarry) = rpos

\* C19 witness: one chunk has moved from the buffer to the disk while the
\* next one is buffered and the decoder holds the byte of a cut character
C19_Witness ==
    /\ Len(disk) = 1
    /\ Len(wbuf) = 1
    /\ rcarry # <<>>
    /\ Len(produced) = 2

\* C27: readObject emits "data" for every chunk of the file and then "end"
\* once: the log holds one "done" at most and no "chunk read" after it, and
\* when "end" has been emitted the chunks emitted are the whole file.
C27_DataThenEndOnce ==
    /\ Cardinality({i \in 1..Len(log) : log[i] = "done"}) = (IF rended THEN 1 ELSE 0)
    /\ \A i, j \in 1..Len(log) :
          (log[i] = "done" /\ i < j) => log[j] # "chunk read"
    /\ rended => /\ produced = ChunksFrom(file, 0, <<>>)
                 /\ Encode(Flatten(produced)) = file

\* C27 witness: "end" was emitted after three chunks and a write completed
\* after it
C27_Witness ==
    /\ rended
    /\ Len(produced) = 3
    /\ log[Len(log)] = "chunk written"
    /\ \E i \in 1..Len(log) : log[i] = "done"

\* C28: a started pipeline in which no error occurs eventually is
\* Completed with every chunk of the source on disk and the sink finalized.
C28_EventuallyCompletedAndFinalized ==
    [](pc = "Running" =>
          <>(\/ pc = "Crashed"
             \/ /\ PipelineState = "Completed"
                /\ disk = ExpectedOutput(example, file)
                /\ endCalls = 1))

C29_WitnessCompleted ==
    /\ PipelineState = "Completed"
    /\ Len(disk) = 2
    /\ uncaught = "none"

\* C30: the chunk for which write() returns false is buffered like any
\* other, once, at the end of the buffer, and the "drain" that follows
\* neither drops nor repeats a chunk: the chunks accepted stay, one for
\* one, those produced.
C30_SaturatedChunkOnce ==
    /\ [][(Len(produced') > Len(produced) /\ ~WriteReturn(wbuf'))
            => Accepted' = Append(Accepted, Transform(example, produced'[Len(produced')]))]_vars
    /\ [][drains' > drains => Accepted' = Accepted]_vars
    /\ [](everSaturated =>
            /\ Len(Accepted) = Len(produced)
            /\ \A i \in 1..Len(produced) :
                  Accepted[i] = Transform(example, produced[i]))

\* C30 witness: a write() returned false, the buffer drained, and a chunk
\* produced after that is on disk too
C30_Witness ==
    /\ everSaturated
    /\ drains = 1
    /\ ~needDrain
    /\ Len(disk) = 3
    /\ Len(disk[1]) + Len(disk[2]) >= WritableHighWaterMark

\* =========================================== manual copy against pipe()
\* The two listings of III.streams.md, "Manual vs pipe()": both create
\* readObject and writeObject without options, so the chunks are the raw
\* bytes of the file.  The manual one writes each chunk in a "data"
\* listener and calls writeObject.end() in an "end" listener; the other
\* calls readObject.pipe(writeObject).
PipeExamples == {"manual", "pipe"}

\* the bytes of one read of a stream created without options
NextRawChunk(f, pos) == SubSeq(f, pos + 1, Min(pos + DefaultHighWaterMark, Len(f)))

\* PipeFlowing with a pipe() that never pauses its source
PipeNeverPauses(owesDrain) == TRUE

\* pipe() pauses the source when write() returns false and resumes it on
\* the destination's "drain": the source flows while no "drain" is owed
PipeFlowing(owesDrain) == ~owesDrain

PipeInit ==
    /\ example \in PipeExamples
    /\ file \in Files
    /\ pc = "Idle"
    /\ StreamsInit
    /\ log = <<>>
    /\ uncaught = "none"
    /\ LoopInit

\* manual listing: "data" arrives and the listener calls writeObject.write
OnManualData ==
    /\ example = "manual"
    /\ Alive(pc)
    /\ ~rended
    /\ ~EndOfFile(file, rpos)
    /\ \E bytes \in {NextRawChunk(file, rpos)} :
       \E buf \in {WritableWrite(wbuf, bytes)} :
       \E ret \in {WriteReturn(buf)} :
           /\ rpos' = rpos + Len(bytes)
           /\ produced' = Append(produced, bytes)
           /\ wbuf' = buf
           /\ needDrain' = (needDrain \/ ~ret)
           /\ everSaturated' = (everSaturated \/ ~ret)
    /\ UNCHANGED <<example, file, pc, rcarry, rended, disk, log, endCalls,
                   drains, uncaught>>
    /\ UNCHANGED loopVars

\* manual listing: "end" arrives and the listener calls writeObject.end()
OnManualEnd ==
    /\ example = "manual"
    /\ Alive(pc)
    /\ ~rended
    /\ EndOfFile(file, rpos)
    /\ rended' = TRUE
    /\ endCalls' = endCalls + 1
    /\ UNCHANGED <<example, file, pc, rpos, rcarry, produced, wbuf, needDrain,
                   disk, log, drains, everSaturated, uncaught>>
    /\ UNCHANGED loopVars

\* pipe(): "data" arrives while the source flows; pipe() writes the chunk
\* to the destination and pauses the source if write() returns false
OnPipeData ==
    /\ example = "pipe"
    /\ Alive(pc)
    /\ ~rended
    /\ ~EndOfFile(file, rpos)
    /\ PipeFlowing(needDrain)
    /\ \E bytes \in {NextRawChunk(file, rpos)} :
       \E buf \in {WritableWrite(wbuf, bytes)} :
       \E ret \in {WriteReturn(buf)} :
           /\ rpos' = rpos + Len(bytes)
           /\ produced' = Append(produced, bytes)
           /\ wbuf' = buf
           /\ needDrain' = (needDrain \/ ~ret)
           /\ everSaturated' = (everSaturated \/ ~ret)
    /\ UNCHANGED <<example, file, pc, rcarry, rended, disk, log, endCalls,
                   drains, uncaught>>
    /\ UNCHANGED loopVars

\* pipe(): the flowing source emits "end" and pipe() ends the destination
OnPipeEnd ==
    /\ example = "pipe"
    /\ Alive(pc)
    /\ ~rended
    /\ EndOfFile(file, rpos)
    /\ PipeFlowing(needDrain)
    /\ rended' = TRUE
    /\ endCalls' = endCalls + 1
    /\ UNCHANGED <<example, file, pc, rpos, rcarry, produced, wbuf, needDrain,
                   disk, log, drains, everSaturated, uncaught>>
    /\ UNCHANGED loopVars

\* the write of the oldest buffered chunk completes (write() was given no
\* callback); an emptied buffer that owed a "drain" emits it, which is
\* what resumes a piped source
OnFlushed ==
    /\ Alive(pc)
    /\ wbuf # <<>>
    /\ disk' = Append(disk, Head(wbuf))
    /\ wbuf' = WrittenBuffer(wbuf)
    /\ IF needDrain /\ WrittenBuffer(wbuf) = <<>>
         THEN needDrain' = FALSE /\ drains' = drains + 1
         ELSE UNCHANGED <<needDrain, drains>>
    /\ UNCHANGED <<example, file, pc, rpos, rcarry, produced, rended, log,
                   endCalls, everSaturated, uncaught>>
    /\ UNCHANGED loopVars

PipeNext ==
    \/ Script
    \/ OnManualData
    \/ OnManualEnd
    \/ OnPipeData
    \/ OnPipeEnd
    \/ OnFlushed
    \/ OnReadError
    \/ OnWriteError

PipeSpec == PipeInit /\ [][PipeNext]_vars

\* the destination was ended and everything written to it is on disk
DestinationFinished == endCalls >= 1 /\ wbuf = <<>>

\* C22: the manual listing and pipe() leave the same content in the
\* destination, that of the source; pipe() moreover writes nothing to a
\* destination that owes a "drain" and ends the destination itself, once,
\* when the source has ended.
C22_PipeEquivalentToManual ==
    /\ [](\A ex \in PipeExamples :
            (example = ex /\ DestinationFinished) => Flatten(disk) = file)
    /\ [][(example = "pipe" /\ needDrain) => Accepted' = Accepted]_vars
    /\ [](example = "pipe" => endCalls = (IF rended THEN 1 ELSE 0))

\* C22 witness: pipe() copied a file of three chunks, pausing on the way
C22_Witness ==
    /\ example = "pipe"
    /\ DestinationFinished
    /\ drains >= 1
    /\ Len(disk) = 3

\* the manual listing copied a file of three chunks too
C22_WitnessManual ==
    /\ example = "manual"
    /\ DestinationFinished
    /\ Len(disk) = 3

\* ======================================= the scripts and the event loop
\* Three scripts that hand work to the event loop: the readFile example of
\* fs.js, fsOP (async/await over fs/promises) and the priority example of
\* the queues.  The main script runs to completion, statement by
\* statement; libuv completes file operations and timers on its own; the
\* loop then runs the callbacks queue by queue, the two microtask queues
\* before anything else.
LoopExamples == {"readFile", "fsOP", "priority"}

\* a line of console.log: its arguments
Line(text) == <<text>>

\* a callback waiting in a queue: what runs, whether the operation it
\* answers failed, and what it is given
Callback(cb, err, arg) == [cb |-> cb, err |-> err, arg |-> arg]

\* something handed to libuv
Operation(op, arg) == [op |-> op, arg |-> arg]

\* fsOP without its awaits: the three operations are started together
fsOPNoAwait ==
    << [logs |-> <<Line("1"), Line("2"), Line("3")>>,
        ops  |-> {Operation("writeFile", "this is server"),
                  Operation("appendFile", "app1"),
                  Operation("appendFile", "app2")}],
       [logs |-> <<>>, ops |-> {}],
       [logs |-> <<>>, ops |-> {}],
       [logs |-> <<>>, ops |-> {}] >>

\* the body of fsOP, cut at its awaits: what each stretch logs and the
\* operation it starts and then awaits
fsOP ==
    << [logs |-> <<>>,
        ops  |-> {Operation("writeFile", "this is server")}],
       [logs |-> <<Line("1")>>,
        ops  |-> {Operation("appendFile", "app1")}],
       [logs |-> <<Line("2")>>,
        ops  |-> {Operation("appendFile", "app2")}],
       [logs |-> <<Line("3")>>, ops |-> {}] >>

\* the stretch of fsOP that runs when the awaited operation o has settled
ResumeAfter(o) == 1 + CHOOSE k \in 1..Len(fsOP) : o \in fsOP[k].ops

\* the statements of each main script
MainScript(ex) ==
    CASE ex = "readFile" ->
           << Operation("log", "1"), Operation("readFile", "./fs.html"),
              Operation("log", "2"), Operation("log", "3") >>
      [] ex = "fsOP" ->
           << Operation("call", "fsOP") >>
      [] ex = "priority" ->
           << Operation("log", "1"),
              Operation("setTimeout", "setTimeout"),
              Operation("setImmediate", "setImmediate"),
              Operation("then", "Promise"),
              Operation("nextTick", "nextTick"),
              Operation("log", "2") >>

\* CallStackEmpty with callbacks that run in the middle of the script
CallStackEmptyAlways(ex, n) == TRUE

\* the main script has run to its end: only then does the loop run
\* callbacks
CallStackEmpty(ex, n) == n = Len(MainScript(ex))

\* both microtask queues are empty
MicrotasksDone == queues.nextTick = <<>> /\ queues.promise = <<>>

\* libuv or a queue still holds something for the loop to wait for or run
Pending == inflight # {} \/ queues # EmptyQueues

\* what ./server.js may hold before fsOP runs
OldContents == SeqUpTo({"old", "app1"}, MaxOldPieces)

\* the phase the loop enters after phase p
PhaseAfter(p) ==
    CASE p = "main"   -> "timers"
      [] p = "timers" -> "poll"
      [] p = "poll"   -> "check"
      [] p = "check"  -> "timers"

\* the queue the loop serves in phase p
PhaseQueue(p) ==
    CASE p = "timers" -> queues.timers
      [] p = "poll"   -> queues.io
      [] p = "check"  -> queues.check
      [] OTHER        -> <<>>

LoopSpecInit ==
    /\ example \in LoopExamples
    /\ file \in (IF example = "readFile" THEN Files ELSE {<<>>})
    /\ pc = "Running"
    /\ StreamsInit
    /\ log = <<>>
    /\ uncaught = "none"
    /\ stmt = 0
    /\ phase = "main"
    /\ queues = EmptyQueues
    /\ inflight = {}
    /\ serverJs \in (IF example = "fsOP" THEN OldContents ELSE {<<>>})
    /\ buff1 = <<>>

\* the next statement of the main script runs
RunStatement ==
    /\ Alive(pc)
    /\ stmt < Len(MainScript(example))
    /\ stmt' = stmt + 1
    /\ \E st \in {MainScript(example)[stmt + 1]} :
         CASE st.op = "log" ->
                /\ log' = Append(log, Line(st.arg))
                /\ UNCHANGED <<queues, inflight>>
           [] st.op \in {"readFile", "setTimeout"} ->
                /\ inflight' = inflight \cup {st}
                /\ UNCHANGED <<log, queues>>
           [] st.op = "setImmediate" ->
                /\ queues' = [queues EXCEPT !.check =
                                 Append(@, Callback("log", FALSE, st.arg))]
                /\ UNCHANGED <<log, inflight>>
           [] st.op = "then" ->
                /\ queues' = [queues EXCEPT !.promise =
                                 Append(@, Callback("log", FALSE, st.arg))]
                /\ UNCHANGED <<log, inflight>>
           [] st.op = "nextTick" ->
                /\ queues' = [queues EXCEPT !.nextTick =
                                 Append(@, Callback("log", FALSE, st.arg))]
                /\ UNCHANGED <<log, inflight>>
           [] st.op = "call" ->
                /\ log' = log \o fsOP[1].logs
                /\ inflight' = inflight \cup fsOP[1].ops
                /\ UNCHANGED queues
    /\ UNCHANGED <<example, file, pc, uncaught, phase, serverJs, buff1>>
    /\ UNCHANGED streamVars

\* the delay of a timer has passed: its callback is due
TimerExpires ==
    /\ Alive(pc)
    /\ \E o \in inflight :
         /\ o.op = "setTimeout"
         /\ inflight' = inflight \ {o}
         /\ queues' = [queues EXCEPT !.timers =
                          Append(@, Callback("log", FALSE, o.arg))]
    /\ UNCHANGED <<example, file, pc, log, uncaught, stmt, phase, serverJs,
                   buff1>>
    /\ UNCHANGED streamVars

\* libuv has carried out a file operation, or failed to: the file is as
\* the operation leaves it and the completion waits in the I/O queue
IOCompletes ==
    /\ Alive(pc)
    /\ \E o \in inflight : \E ok \in BOOLEAN :
         /\ o.op \in {"readFile", "writeFile", "appendFile"}
         /\ inflight' = inflight \ {o}
         /\ serverJs' =
              CASE ok /\ o.op = "writeFile"  -> <<o.arg>>
                [] ok /\ o.op = "appendFile" -> Append(serverJs, o.arg)
                [] OTHER -> serverJs
         /\ queues' = [queues EXCEPT !.io = Append(@,
              IF o.op = "readFile"
                THEN Callback("readFile", ~ok,
                              IF ok THEN DecodeStr(file) ELSE <<"undefined">>)
                ELSE Callback("fsOP", ~ok, ResumeAfter(o)))]
    /\ UNCHANGED <<example, file, pc, log, uncaught, stmt, phase, buff1>>
    /\ UNCHANGED streamVars

\* the oldest process.nextTick callback runs
RunNextTick ==
    /\ Alive(pc)
    /\ CallStackEmpty(example, stmt)
    /\ queues.nextTick # <<>>
    /\ log' = Append(log, Line(Head(queues.nextTick).arg))
    /\ queues' = [queues EXCEPT !.nextTick = Tail(@)]
    /\ UNCHANGED <<example, file, pc, uncaught, stmt, phase, inflight,
                   serverJs, buff1>>
    /\ UNCHANGED streamVars

\* the oldest promise callback runs, once no nextTick callback waits: a
\* then() callback logs; fsOP goes on after its await, up to the next one,
\* or throws what the awaited operation failed with, which nothing catches
RunPromise ==
    /\ Alive(pc)
    /\ CallStackEmpty(example, stmt)
    /\ queues.nextTick = <<>>
    /\ queues.promise # <<>>
    /\ queues' = [queues EXCEPT !.promise = Tail(@)]
    /\ \E c \in {Head(queues.promise)} :
         CASE c.cb = "log" ->
                /\ log' = Append(log, Line(c.arg))
                /\ UNCHANGED <<pc, uncaught, inflight>>
           [] c.cb = "fsOP" /\ c.err ->
                /\ pc' = "Crashed"
                /\ uncaught' = "UnhandledRejection"
                /\ UNCHANGED <<log, inflight>>
           [] c.cb = "fsOP" /\ ~c.err ->
                /\ log' = log \o fsOP[c.arg].logs
                /\ inflight' = inflight \cup fsOP[c.arg].ops
                /\ UNCHANGED <<pc, uncaught>>
    /\ UNCHANGED <<example, file, stmt, phase, serverJs, buff1>>
    /\ UNCHANGED streamVars

\* timers phase: the oldest due timer's callback runs
RunTimer ==
    /\ Alive(pc)
    /\ CallStackEmpty(example, stmt)
    /\ MicrotasksDone
    /\ phase = "timers"
    /\ queues.timers # <<>>
    /\ log' = Append(log, Line(Head(queues.timers).arg))
    /\ queues' = [queues EXCEPT !.timers = Tail(@)]
    /\ UNCHANGED <<example, file, pc, uncaught, stmt, phase, inflight,
                   serverJs, buff1>>
    /\ UNCHANGED streamVars

\* poll phase: the oldest completion is delivered: readFile's callback
\* logs the error if there is one and then the payload; a promise of
\* fs/promises settles, which queues what awaits it
RunIO ==
    /\ Alive(pc)
    /\ CallStackEmpty(example, stmt)
    /\ MicrotasksDone
    /\ phase = "poll"
    /\ queues.io # <<>>
    /\ \E c \in {Head(queues.io)} :
         IF c.cb = "readFile"
           THEN /\ log' = log \o (IF c.err THEN <<Line("err")>> ELSE <<>>)
                              \o << <<"payload: ", c.arg>> >>
                /\ queues' = [queues EXCEPT !.io = Tail(@)]
           ELSE /\ queues' = [queues EXCEPT !.io = Tail(@),
                                            !.promise = Append(@, c)]
                /\ UNCHANGED log
    /\ UNCHANGED <<example, file, pc, uncaught, stmt, phase, inflight,
                   serverJs, buff1>>
    /\ UNCHANGED streamVars

\* check phase: the oldest setImmediate callback runs
RunImmediate ==
    /\ Alive(pc)
    /\ CallStackEmpty(example, stmt)
    /\ MicrotasksDone
    /\ phase = "check"
    /\ queues.check # <<>>
    /\ log' = Append(log, Line(Head(queues.check).arg))
    /\ queues' = [queues EXCEPT !.check = Tail(@)]
    /\ UNCHANGED <<example, file, pc, uncaught, stmt, phase, inflight,
                   serverJs, buff1>>
    /\ UNCHANGED streamVars

\* the loop has nothing to run in its phase and goes to the next one, as
\* long as anything is still pending; with nothing pending the process
\* exits
NextPhase ==
    /\ Alive(pc)
    /\ CallStackEmpty(example, stmt)
    /\ MicrotasksDone
    /\ PhaseQueue(phase) = <<>>
    /\ Pending
    /\ phase' = PhaseAfter(phase)
    /\ UNCHANGED <<example, file, pc, log, uncaught, stmt, queues, inflight,
                   serverJs, buff1>>
    /\ UNCHANGED streamVars

LoopNext ==
    \/ RunStatement
    \/ TimerExpires
    \/ IOCompletes
    \/ RunNextTick
    \/ RunPromise
    \/ RunTimer
    \/ RunIO
    \/ RunImmediate
    \/ NextPhase

LoopSpec == LoopSpecInit /\ [][LoopNext]_vars

\* the lines the readFile callback printed
CallbackLines ==
    {i \in 1..Len(log) : Len(log[i]) = 2 \/ log[i] = Line("err")}

\* C23: the callback of fs.readFile runs only after the statements that
\* follow the call have run: whatever the callback prints comes after the
\* lines 1, 2, 3, and what is printed last is the payload (undefined when
\* the read failed, after the error).
C23_CallbackAfterScript ==
    example = "readFile" =>
        /\ \A i \in CallbackLines :
              /\ i > 3
              /\ SubSeq(log, 1, 3) = <<Line("1"), Line("2"), Line("3")>>
        /\ \A i \in 1..Len(log) :
              Len(log[i]) = 2 =>
                  /\ i = Len(log)
                  /\ log[i][2] \in {DecodeStr(file), <<"undefined">>}
                  /\ (log[i][2] = <<"undefined">>) = (log[i - 1] = Line("err"))

\* C23 witness: a file with text in it was printed after 1, 2, 3
C23_Witness ==
    /\ example = "readFile"
    /\ Len(log) = 4
    /\ Len(log[4]) = 2
    /\ Len(log[4][2]) >= 2
    /\ log[4][2] = DecodeStr(file)

\* the read had completed before the statements after the call ran
C23_WitnessEarlyCompletion ==
    /\ example = "readFile"
    /\ stmt = 2
    /\ queues.io # <<>>

\* C24: in fsOP the three operations run one after the other: never two
\* at a time, each appendFile started on what the operation before left,
\* the lines "1", "2", "3" logged in this order, and after "3" server.js
\* holds "this is server", "app1", "app2", whatever it held before.
C24_AwaitedInSequence ==
    example = "fsOP" =>
        /\ Cardinality(inflight) + Len(queues.io) + Len(queues.promise) <= 1
        /\ \E n \in 0..3 : log = SubSeq(<<Line("1"), Line("2"), Line("3")>>, 1, n)
        /\ Operation("appendFile", "app1") \in inflight
              => serverJs = <<"this is server">>
        /\ Operation("appendFile", "app2") \in inflight
              => serverJs = <<"this is server", "app1">>
        /\ Len(log) = 3 => serverJs = <<"this is server", "app1", "app2">>

\* C24 witness: fsOP ran to its end and nothing is left pending
C24_Witness ==
    /\ example = "fsOP"
    /\ log = <<Line("1"), Line("2"), Line("3")>>
    /\ serverJs = <<"this is server", "app1", "app2">>
    /\ ~Pending

\* C25: once every callback of the priority example has run, the lines
\* are 1, 2, nextTick, Promise, setTimeout, setImmediate.  Whether the
\* timer is due when the loop first comes to its timers is a matter of
\* time: when it is not, setImmediate's callback runs first.
C25_QueuePriorityOrder ==
    (example = "priority" /\ Len(log) = 6) =>
        log = <<Line("1"), Line("2"), Line("nextTick"), Line("Promise"),
                Line("setTimeout"), Line("setImmediate")>>

\* ============================================================ buffer.js
\* Lines 9-16 of buffer.js: buff1 = Buffer.from("ab"), printed, then
\* buff1.write("hello"), printed again.  The two string literals stand
\* for any two strings: an example is the pair of them.
Texts == SeqUpTo(Alphabet, MaxTextLen)

BufferExamples == [from : Texts, write : Texts]

\* Buffer.from(string): the utf-8 bytes of the string; the buffer is as
\* long as they are
BufferFromString(str) == Encode(str)

RECURSIVE FittingChars(_, _)
\* the leading characters of a string whose bytes fit in n bytes
FittingChars(str, n) ==
    IF str = <<>> \/ Len(EncodeChar(Head(str))) > n THEN <<>>
    ELSE <<Head(str)>> \o FittingChars(Tail(str), n - Len(EncodeChar(Head(str))))

\* BufferWrite with a buffer that grows to hold the whole string
BufferWriteGrowing(buf, str) ==
    Encode(str) \o SubSeq(buf, Len(Encode(str)) + 1, Len(buf))

\* buf.write(string): the bytes of the leading characters that fit
\* replace the first bytes of the buffer, the others stay; a character
\* that does not fit whole is not written in part
BufferWrite(buf, str) ==
    Encode(FittingChars(str, Len(buf)))
        \o SubSeq(buf, Len(Encode(FittingChars(str, Len(buf)))) + 1, Len(buf))

\* buf.toString(): the bytes decoded, a character cut off at the end of
\* the buffer giving U+FFFD
BufferToString(buf) ==
    DecodeStr(buf) \o (IF DecodeCarry(buf) = <<>> THEN <<>> ELSE <<"FFFD">>)

BufferInit ==
    /\ example \in BufferExamples
    /\ file = <<>>
    /\ pc = "Running"
    /\ StreamsInit
    /\ log = <<>>
    /\ uncaught = "none"
    /\ LoopInit

\* lines 9-11: the buffer is created from the first string and printed
BufferFrom ==
    /\ Alive(pc)
    /\ stmt = 0
    /\ stmt' = 1
    /\ buff1' = BufferFromString(example.from)
    /\ log' = log \o << <<"buff1: ", buff1'>>, Line(buff1') >>
    /\ UNCHANGED <<example, file, pc, uncaught, phase, queues, inflight,
                   serverJs>>
    /\ UNCHANGED streamVars

\* lines 13-16: the second string is written to the buffer, which is
\* printed as a string and as bytes
BufferWriteString ==
    /\ Alive(pc)
    /\ stmt = 1
    /\ stmt' = 2
    /\ buff1' = BufferWrite(buff1, example.write)
    /\ log' = log \o << Line(BufferToString(buff1')), Line(buff1') >>
    /\ UNCHANGED <<example, file, pc, uncaught, phase, queues, inflight,
                   serverJs>>
    /\ UNCHANGED streamVars

BufferNext ==
    \/ BufferFrom
    \/ BufferWriteString

BufferSpec == BufferInit /\ [][BufferNext]_vars

\* the first n bytes of a byte sequence, all of it if it is shorter
LeadingBytes(bs, n) == SubSeq(bs, 1, Min(n, Len(bs)))

C26_WitnessLetters ==
    /\ stmt = 2
    /\ example.from = <<"e'", "a">>
    /\ example.write = <<"a", "a", "a">>
    /\ buff1 = <<"a", "a", "a">>

====
